---- MODULE Spec2Model ----
(***************************************************************************)
(* ai-radar: the enrichment and ranking pipeline (src/radar/pipeline.py),  *)
(* the URL canonicalizer (src/radar/utils.py), the scorers                 *)
(* (src/radar/processing/score.py, classify.py, embed.py) and the          *)
(* news_items store (src/radar/db.py).                                     *)
(*                                                                         *)
(* Strings are sequences of tokens; a token is one character, or one       *)
(* percent-escape ("%2F"), so that splitting, sorting, quoting and         *)
(* trimming are computed as urllib computes them.  Scores are fixed-point  *)
(* thousandths: 1000 stands for 1.0.                                       *)
(***************************************************************************)
EXTENDS Integers, Sequences, FiniteSets, TLC

VARIABLES
    feed,         \* the records the providers' feeds carry, oldest first
    store,        \* the news_items table: a set of rows
    config,       \* the configuration every run loads
    runs,         \* pipeline runs so far
    batch,        \* the records the collectors returned to the last run
    outcome,      \* the items of the last run, each with the stage it reached
    stats,        \* the statistics record the last run returned
    storeBefore,  \* the table as the last run found it
    same,         \* the last run got the batch of the run before it, and
                  \* nothing touched the table in between
    touched,      \* the table was written to since the last run
    prevStats,    \* the statistics record of the run before the last
    last,         \* how the last run went: the fault it met, whether it raised,
                  \* the collectors it called and what they had to yield
    urlA,         \* SpecUrl: the URL given to canonicalize_url
    urlB,         \* SpecUrl: a second URL, derived from urlA
    rel,          \* SpecUrl: how urlB was derived: "same", "fragment", "order"
    outA,         \* SpecUrl: canonicalize_url(urlA), or Unset
    outB,         \* SpecUrl: canonicalize_url(urlB), or Unset
    outAA         \* SpecUrl: canonicalize_url(outA), or Unset

pipeVars ==
    <<feed, store, config, runs, batch, outcome, stats, storeBefore, same, touched,
      prevStats, last>>

urlVars == <<urlA, urlB, rel, outA, outB, outAA>>

vars == <<pipeVars, urlVars>>

\* a list built by a comprehension, as a list
AsList(f) == f \o <<>>

\* the value a name is bound to: the element of a one-element set
TheOne(S) == CHOOSE x \in S : TRUE

Unset == <<"<unset>">>

\* the value None in a field that should hold a string
None == <<"<None>">>

\* the outcome of a call that raises
Raised == <<"<raised>">>

(***************************************************************************)
(* Bounds                                                                  *)
(***************************************************************************)
\* longest URL, in tokens, given to canonicalize_url in SpecUrl
MaxUrlLen == 4
\* most records the feeds carry, and so the collectors return to one run
MaxBatch == 2
\* most pipeline runs in a behaviour
MaxRuns == 2

(***************************************************************************)
(* Token strings                                                           *)
(***************************************************************************)
\* the characters URLs are drawn from
UrlAlphabet == {"a", "b", "/", "?", "&", "=", "#", " ", "["}

\* code point of a token's character: Python compares str by code point
Ord(t) ==
    CASE t = " " -> 32
      [] t = "#" -> 35
      [] t = "&" -> 38
      [] t = "/" -> 47
      [] t = "=" -> 61
      [] t = "?" -> 63
      [] t = "[" -> 91
      [] t = "a" -> 97
      [] t = "b" -> 98
      [] OTHER   -> 0

RECURSIVE StrLess(_, _)
\* s < t for Python strings
StrLess(s, t) ==
    IF t = <<>> THEN FALSE
    ELSE IF s = <<>> THEN TRUE
    ELSE IF Ord(Head(s)) # Ord(Head(t)) THEN Ord(Head(s)) < Ord(Head(t))
    ELSE StrLess(Tail(s), Tail(t))

\* (n1, v1) < (n2, v2) for Python tuples of strings
PairLess(p, q) == StrLess(p[1], q[1]) \/ (p[1] = q[1] /\ StrLess(p[2], q[2]))

RECURSIVE LStrip(_)
LStrip(s) == IF s # <<>> /\ Head(s) = " " THEN LStrip(Tail(s)) ELSE s

RECURSIVE RStrip(_)
RStrip(s) ==
    IF s # <<>> /\ s[Len(s)] = " " THEN RStrip(SubSeq(s, 1, Len(s) - 1)) ELSE s

\* str.strip()
Strip(s) == RStrip(LStrip(s))

\* index of the first token of s that is in seps, Len(s)+1 when there is none
FirstOf(s, seps) ==
    IF \E i \in 1..Len(s) : s[i] \in seps
    THEN CHOOSE i \in 1..Len(s) :
            /\ s[i] \in seps
            /\ \A j \in 1..(i - 1) : s[j] \notin seps
    ELSE Len(s) + 1

\* s.split(sep, 1): <<before, after>>; after is empty when sep is absent
SplitFirst(s, sep) ==
    LET i == FirstOf(s, {sep})
    IN  <<SubSeq(s, 1, i - 1), SubSeq(s, i + 1, Len(s))>>

RECURSIVE Split(_, _)
\* s.split(sep)
Split(s, sep) ==
    LET i == FirstOf(s, {sep})
    IN  IF i > Len(s) THEN <<s>>
        ELSE <<SubSeq(s, 1, i - 1)>> \o Split(SubSeq(s, i + 1, Len(s)), sep)

(***************************************************************************)
(* urllib.parse as canonicalize_url uses it                                *)
(***************************************************************************)
\* urllib.parse.quote_plus of one character
QuoteTok(t) ==
    CASE t = " " -> "+"
      [] t = "/" -> "%2F"
      [] t = "?" -> "%3F"
      [] t = "=" -> "%3D"
      [] t = "[" -> "%5B"
      [] t = "&" -> "%26"
      [] t = "#" -> "%23"
      [] OTHER   -> t

\* urllib.parse.unquote_plus of one token
UnquoteTok(t) ==
    CASE t = "+"   -> " "
      [] t = "%2F" -> "/"
      [] t = "%3F" -> "?"
      [] t = "%3D" -> "="
      [] t = "%5B" -> "["
      [] t = "%26" -> "&"
      [] t = "%23" -> "#"
      [] OTHER     -> t

Quote(s) == [i \in 1..Len(s) |-> QuoteTok(s[i])]
Unquote(s) == [i \in 1..Len(s) |-> UnquoteTok(s[i])]

RECURSIVE ParsePieces(_)
\* the (name, value) pairs of the "&"-separated pieces: an empty piece is
\* skipped, a piece without "=" gets the blank value (keep_blank_values)
ParsePieces(pieces) ==
    IF pieces = <<>> THEN <<>>
    ELSE LET p  == Head(pieces)
             nv == SplitFirst(p, "=")
         IN  IF p = <<>> THEN ParsePieces(Tail(pieces))
             ELSE <<(<<Unquote(nv[1]), Unquote(nv[2])>>)>> \o ParsePieces(Tail(pieces))

\* parse_qsl(query, keep_blank_values=True)
parse_qsl(query) == ParsePieces(Split(query, "&"))

RECURSIVE Insert(_, _)
\* p put into the sorted list ps, after the elements not greater than it
Insert(p, ps) ==
    IF ps = <<>> THEN <<p>>
    ELSE IF PairLess(p, Head(ps)) THEN <<p>> \o ps
    ELSE <<Head(ps)>> \o Insert(p, Tail(ps))

RECURSIVE SortPairs(_)
\* sorted(q)
SortPairs(ps) ==
    IF ps = <<>> THEN <<>>
    ELSE Insert(ps[Len(ps)], SortPairs(SubSeq(ps, 1, Len(ps) - 1)))

RECURSIVE urlencode(_)
\* urlencode(pairs): name=value joined by "&"
urlencode(ps) ==
    IF ps = <<>> THEN <<>>
    ELSE LET one == Quote(Head(ps)[1]) \o <<"=">> \o Quote(Head(ps)[2])
         IN  IF Len(ps) = 1 THEN one ELSE one \o <<"&">> \o urlencode(Tail(ps))

\* urlparse(s): the network location (after a leading "//", up to the first
\* "/", "?" or "#"), the path, the query and the fragment.  ok is FALSE where
\* urlsplit raises ValueError: a "[" in the network location without "]".
urlparse(s) ==
    LET hasNet == Len(s) >= 2 /\ s[1] = "/" /\ s[2] = "/"
        after  == IF hasNet THEN SubSeq(s, 3, Len(s)) ELSE s
        n      == IF hasNet THEN FirstOf(after, {"/", "?", "#"}) - 1 ELSE 0
        netloc == SubSeq(after, 1, n)
        rest   == SubSeq(after, n + 1, Len(after))
        pf     == SplitFirst(rest, "#")
        pq     == SplitFirst(pf[1], "?")
    IN  [ok       |-> \A i \in 1..Len(netloc) : netloc[i] # "[",
         netloc   |-> netloc,
         path     |-> pq[1],
         query    |-> pq[2],
         fragment |-> pf[2]]

\* urlunparse(u): "//" is written only before a non-empty network location,
\* "?" only before a non-empty query, "#" only before a non-empty fragment
urlunparse(u) ==
    (IF u.netloc # <<>> THEN <<"/", "/">> \o u.netloc ELSE <<>>)
    \o u.path
    \o (IF u.query # <<>> THEN <<"?">> \o u.query ELSE <<>>)
    \o (IF u.fragment # <<>> THEN <<"#">> \o u.fragment ELSE <<>>)

\* out[:-1] if out.endswith("/") else out
StripOneSlash(out) ==
    IF out # <<>> /\ out[Len(out)] = "/" THEN SubSeq(out, 1, Len(out) - 1) ELSE out

\* utils.canonicalize_url.  url.strip() raises on a value that is no string,
\* in the try block and again in the except block that handles it.
canonicalize_url(url) ==
    LET s == Strip(url)
        u == urlparse(s)
    IN  IF url = None THEN Raised
        ELSE IF ~u.ok THEN s
        ELSE LET fragmentless == [u EXCEPT !.fragment = <<>>]
                 q_sorted     == urlencode(SortPairs(parse_qsl(fragmentless.query)))
                 cleaned      == [fragmentless EXCEPT !.query = q_sorted]
             IN  StripOneSlash(urlunparse(cleaned))

(***************************************************************************)
(* Scores: fixed-point thousandths                                         *)
(***************************************************************************)
One == 1000

Min2(a, b) == IF a <= b THEN a ELSE b
Max2(a, b) == IF a >= b THEN a ELSE b

\* score._clamp(v, 0.0, 1.0)
_clamp(v) == Max2(0, Min2(One, v))

\* a * b of two fixed-point numbers
Mul(a, b) == (a * b) \div One

\* str.lower().strip() of the names the model uses
LowerStrip(x) ==
    CASE x = "Lab Blog " -> "lab blog"
      [] x = "Creator "  -> "creator"
      [] x = "WIRE "     -> "wire"
      [] x = "Alice"     -> "alice"
      [] OTHER           -> x

\* score._norm: strip, lower, runs of whitespace collapsed
_norm(x) ==
    CASE x = "OpenAI  News" -> "openai news"
      [] OTHER              -> LowerStrip(x)

\* m.get(k, k) for an alias table m
AliasGet(m, k) == IF k \in DOMAIN m THEN m[k] ELSE k

\* score.compute_source_trust
compute_source_trust(author_org, trust_cfg, source_kind, creator_name) ==
    LET kind == LowerStrip(IF source_kind = "" THEN "institutional" ELSE source_kind)
        c0   == _norm(IF creator_name # "" THEN creator_name ELSE author_org)
        c    == AliasGet(trust_cfg.creator_alias, c0)
        k    == AliasGet(trust_cfg.org_alias, _norm(author_org))
    IN  IF kind = "creator"
        THEN IF trust_cfg.strict_creator_whitelist /\ c # ""
                /\ c \notin DOMAIN trust_cfg.creator_trust
             THEN _clamp(trust_cfg.creator_block_trust)
             ELSE IF c \in DOMAIN trust_cfg.creator_trust
             THEN _clamp(trust_cfg.creator_trust[c])
             ELSE _clamp(trust_cfg.creator_default_trust)
        ELSE IF k \in DOMAIN trust_cfg.org_trust THEN _clamp(trust_cfg.org_trust[k])
        ELSE IF k \in {"arxiv", "github", "huggingface"} THEN 750
        ELSE _clamp(trust_cfg.default_trust)

RECURSIVE SumOf(_, _)
\* sum(f[k] for k in keys)
SumOf(f, keys) ==
    IF keys = {} THEN 0
    ELSE LET k == CHOOSE x \in keys : TRUE IN f[k] + SumOf(f, keys \ {k})

\* the key a record's source is counted under: (source or "unknown").lower().strip()
SourceKey(source) == LowerStrip(IF source = "" THEN "unknown" ELSE source)

\* score.compute_source_mix_score; source_counts is the Counter of SourceKey
\* over the surviving batch, given as a function on its keys
compute_source_mix_score(source_counts, source, source_kind, source_weight, trust) ==
    LET keys  == DOMAIN source_counts
        total == Max2(1, SumOf(source_counts, keys))
        src   == LowerStrip(source)
        count == IF src \in keys THEN source_counts[src] ELSE 1
        share == (count * One) \div total
        kind  == LowerStrip(IF source_kind = "" THEN "institutional" ELSE source_kind)
        w     == _clamp(source_weight)
        base0 == 550 + Mul(250, _clamp(trust)) + Mul(100, w)
        base1 == IF kind = "creator" THEN base0 - 50 ELSE base0
        over  == Max2(0, share - 200)
        base2 == base1 - Min2(180, Mul(over, 750))
    IN  _clamp(base2)

\* exp(-ln 2 * d / 7) for whole days d: the decay of score.compute_recency_score
\* at the default half life
HalfLifeDecay(d) ==
    CASE d = 0 -> 1000
      [] d = 1 -> 906
      [] d = 2 -> 820
      [] d = 3 -> 743
      [] d = 4 -> 673
      [] d = 5 -> 610
      [] d = 6 -> 552
      [] d = 7 -> 500
      [] OTHER -> 250

NoDate == -1

\* score.compute_recency_score: published_at and now are day numbers
compute_recency_score(published_at, now) ==
    IF published_at = NoDate THEN 400
    ELSE HalfLifeDecay(Max2(0, now - published_at))

\* x in u, for the domains the scorers look for in a URL
UrlHas(u, x) == \E i \in 1..Len(u) : u[i] = x

\* compute_actionability without the bonus for a github.com url
compute_actionability_no_github(act_hits, url) ==
    LET d == (IF UrlHas(url, "huggingface.co") THEN 350 ELSE 0)
             + (IF UrlHas(url, "arxiv.org") THEN 200 ELSE 0)
    IN  _clamp(d + Min2(400, act_hits * 70))

\* score.compute_actionability; act_hits is the number of its keywords in the text
compute_actionability(act_hits, url) ==
    LET d == (IF UrlHas(url, "github.com") THEN 400 ELSE 0)
             + (IF UrlHas(url, "huggingface.co") THEN 350 ELSE 0)
             + (IF UrlHas(url, "arxiv.org") THEN 200 ELSE 0)
    IN  _clamp(d + Min2(400, act_hits * 70))

\* score.compute_breakout_signal; prod_hits is the number of product keywords
compute_breakout_signal(prod_hits, source, novelty, recency, actionability) ==
    LET s     == IF source \in {"github_discovery", "huggingface_discovery"} THEN 300 ELSE 0
        score == s + Min2(250, 40 * prod_hits)
                 + Mul(250, _clamp(novelty))
                 + Mul(150, _clamp(recency))
                 + Mul(200, _clamp(actionability))
    IN  _clamp(score)

\* the weights combine_priority uses when ranking.yaml gives none
DefaultWeights ==
    [source_trust |-> 280, novelty |-> 240, relevance |-> 200,
     actionability |-> 140, recency |-> 100, source_mix |-> 40]

\* the keys a weights table may carry, in a fixed order: the six scores, and
\* a key "bonus" that names no score
WeightKeys ==
    <<"source_trust", "novelty", "relevance", "actionability", "recency", "source_mix",
      "bonus">>

RECURSIVE WeightedFrom(_, _, _, _, _)
\* the loop of combine_priority over the weights from key i on: <<tot, agg>>
WeightedFrom(w, scores, i, tot, agg) ==
    IF i > Len(WeightKeys) THEN <<tot, agg>>
    ELSE LET k == WeightKeys[i]
         IN  IF k \notin DOMAIN w \/ w[k] <= 0
             THEN WeightedFrom(w, scores, i + 1, tot, agg)
             ELSE WeightedFrom(w, scores, i + 1, tot + w[k],
                               agg + w[k] * (IF k \in DOMAIN scores THEN scores[k] ELSE 0))

\* score.combine_priority: w0 is ranking_cfg["weights"], a function on its keys;
\* a weight that is not positive is left out of both sums
combine_priority(scores, w0) ==
    LET w  == IF DOMAIN w0 = {} THEN DefaultWeights ELSE w0
        ta == WeightedFrom(w, scores, 1, 0, 0)
    IN  IF ta[1] <= 0 THEN 0 ELSE ta[2] \div ta[1]

(***************************************************************************)
(* Novelty (embed.py).  The encoder is a black box: Cosine gives the dot   *)
(* product of the unit vectors of two texts.                               *)
(***************************************************************************)
Cosine(a, b) ==
    IF a = b THEN 1000
    ELSE LET p == {a, b}
         IN  CASE p = {"T_release", "T_agent"}  -> 700
               [] p = {"T_release", "T_long"}   -> 850
               [] p = {"T_agent", "T_long"}     -> 400
               [] p = {"T_short", "T_other"}    -> -150
               [] OTHER                         -> 300

\* embed.max_similarity_with_index: the largest similarity to a recent text
MaxSim(text, recent) ==
    IF recent = {} THEN 0
    ELSE LET sims == {Cosine(text, r) : r \in recent}
         IN  CHOOSE m \in sims : \A x \in sims : x <= m

\* novelty_score without its empty-history default: 1 - max similarity always
novelty_score_no_default(text, recent) ==
    LET max_sim == Max2(-One, Min2(One, MaxSim(text, recent)))
    IN  Max2(0, Min2(One, One - max_sim))

\* embed.novelty_score; recent is the set of texts of the history window
novelty_score(text, recent) ==
    IF recent = {} THEN 900
    ELSE LET max_sim == Max2(-One, Min2(One, MaxSim(text, recent)))
         IN  Max2(0, Min2(One, One - max_sim))

(***************************************************************************)
(* Classification (classify.py).  A text is known by what the classifier   *)
(* reads from it: its length and its keyword hits.                         *)
(***************************************************************************)
CONTENT_TYPES == <<"tool", "research", "release", "industry", "news">>

TypeSet == {CONTENT_TYPES[i] : i \in 1..Len(CONTENT_TYPES)}

\* classify.classify_topic_and_relevance: topic_hits is the best topic's hits
relevance_of(topic_hits) == One - (One \div (1 + topic_hits))

\* the per-type scores of classify.classify_content_type, in tenths:
\* keyword hits, then the source priors, the product signal and the hint
type_scores(hits, tool_signal, source, source_type, url, hint) ==
    LET s  == LowerStrip(source)
        st == LowerStrip(source_type)
        h  == LowerStrip(hint)
        isArxiv == s = "arxiv" \/ UrlHas(url, "arxiv.org")
        isGhRel == s = "github_release" \/ UrlHas(url, "/releases/")
        isHf    == s = "huggingface_model" \/ UrlHas(url, "huggingface.co")
    IN  [ct \in TypeSet |->
            10 * hits[ct]
            + (IF ct = "research" /\ isArxiv THEN 25 ELSE 0)
            + (IF ct = "release" /\ isGhRel THEN 18 ELSE 0)
            + (IF ct = "tool" /\ isGhRel THEN 12 ELSE 0)
            + (IF ct = "release" /\ isHf THEN 12 ELSE 0)
            + (IF ct = "tool" /\ isHf THEN 5 ELSE 0)
            + (IF ct = "news" /\ st = "rss" THEN 4 ELSE 0)
            + (IF ct = "tool" /\ tool_signal THEN 14 ELSE 0)
            + (IF ct = h THEN 18 ELSE 0)]

\* max(scores, key=scores.get): the first type, in CONTENT_TYPES order, with
\* the highest score
best_type_of(scores) ==
    LET i == CHOOSE j \in 1..Len(CONTENT_TYPES) :
                /\ \A k \in 1..Len(CONTENT_TYPES) :
                      scores[CONTENT_TYPES[k]] <= scores[CONTENT_TYPES[j]]
                /\ \A k \in 1..(j - 1) :
                      scores[CONTENT_TYPES[k]] < scores[CONTENT_TYPES[j]]
    IN  CONTENT_TYPES[i]

\* classify.classify_content_type: <<content_type, confidence>>
classify_content_type(scores) ==
    LET best  == best_type_of(scores)
        Pos[i \in 0..Len(CONTENT_TYPES)] ==
            IF i = 0 THEN 0 ELSE Max2(scores[CONTENT_TYPES[i]], 0) + Pos[i - 1]
        total == Pos[Len(CONTENT_TYPES)]
    IN  IF scores[best] <= 0 THEN <<"news", 200>>
        ELSE <<best, _clamp((scores[best] * One) \div total)>>

\* classify.compute_quality_score
compute_quality_score(n_chars, content_type_confidence, keyword_strength) ==
    LET length_score == Min2(One, (n_chars * One) \div 900)
        kw_score     == Min2(One, (keyword_strength * One) \div 40)
        conf_score   == Max2(0, Min2(One, content_type_confidence))
        q            == Mul(350, length_score) + Mul(400, conf_score) + Mul(250, kw_score)
    IN  Max2(0, Min2(One, q))

\* classify.classify_item
classify_item(text, source, source_type, url, hint) ==
    LET scores    == type_scores(text.hits, text.tool_signal, source, source_type, url, hint)
        tc        == classify_content_type(scores)
        strength  == scores[best_type_of(scores)]
        relevance == relevance_of(text.topic_hits)
    IN  [content_type            |-> tc[1],
         content_type_confidence |-> tc[2],
         quality_score           |-> compute_quality_score(text.chars, tc[2], strength),
         relevance_score         |-> IF tc[1] \in {"industry", "tool", "release", "research"}
                                     THEN Min2(One, relevance + 50) ELSE relevance]

(***************************************************************************)
(* Configuration (configs/*.yaml as load_config returns it).  The values   *)
(* of CfgDefault are the defaults the code falls back to.                  *)
(***************************************************************************)
CfgDefault ==
    [ranking |->
        [max_items_per_source_per_run |-> 30,
         fulltext_max_fetch_per_run   |-> 18,
         min_trust_core               |-> 600,
         min_trust_scout              |-> 400,
         min_creator_trust            |-> 750,
         min_type_confidence_core     |-> 280,
         min_type_confidence_scout    |-> 330,
         min_quality_core             |-> 450,
         min_quality_scout            |-> 620,
         breakout_promote_threshold   |-> 680,
         novelty_compare_last_n       |-> 200,
         weights                      |-> <<>>],
     trust |->
        [default_trust            |-> 550,
         creator_default_trust    |-> 700,
         creator_block_trust      |-> 50,
         strict_creator_whitelist |-> TRUE,
         org_trust                |-> [openai |-> 950],
         creator_trust            |-> [alice |-> 820],
         org_alias                |-> [x \in {"openai news"} |-> "openai"],
         creator_alias            |-> [x \in {"al"} |-> "alice"]],
     language_policy |->
        [allowed         |-> {"it", "en"},
         drop_disallowed |-> TRUE,
         min_confidence  |-> 600]]

\* a deployment that tunes ranking.yaml and trust.yaml: one item per source
\* and run, a one-item novelty window, trust alone as the priority, a lower
\* promotion threshold, more trusting creator defaults
CfgTuned ==
    [CfgDefault EXCEPT
        !.ranking.max_items_per_source_per_run = 1,
        !.ranking.fulltext_max_fetch_per_run   = 1,
        !.ranking.novelty_compare_last_n       = 1,
        !.ranking.breakout_promote_threshold   = 522,
        !.ranking.weights = [source_trust |-> 1000, novelty |-> 0, recency |-> -100],
        !.trust.creator_default_trust = 800,
        !.trust.creator_trust = [alice |-> 970],
        !.language_policy.drop_disallowed = FALSE]

Configs == {CfgDefault, CfgTuned}

(***************************************************************************)
(* Texts, as the classifier, the scorers, the language detector and the    *)
(* encoder see them                                                        *)
(***************************************************************************)
NoHits == [ct \in TypeSet |-> 0]

TextInfo(t) ==
    CASE t = "T_release" ->
            [chars |-> 950, hits |-> [NoHits EXCEPT !["release"] = 2],
             tool_signal |-> FALSE, topic_hits |-> 2, act_hits |-> 2, prod_hits |-> 0,
             lang |-> "en", lang_conf |-> 950]
      [] t = "T_agent" ->
            [chars |-> 1200, hits |-> [NoHits EXCEPT !["tool"] = 3],
             tool_signal |-> TRUE, topic_hits |-> 19, act_hits |-> 6, prod_hits |-> 7,
             lang |-> "en", lang_conf |-> 900]
      [] t = "T_long" ->
            [chars |-> 1300, hits |-> [NoHits EXCEPT !["release"] = 3, !["news"] = 1],
             tool_signal |-> FALSE, topic_hits |-> 3, act_hits |-> 3, prod_hits |-> 1,
             lang |-> "en", lang_conf |-> 970]
      [] t = "T_short" ->
            [chars |-> 100, hits |-> NoHits,
             tool_signal |-> FALSE, topic_hits |-> 0, act_hits |-> 0, prod_hits |-> 0,
             lang |-> "it", lang_conf |-> 400]
      [] t = "T_other" ->
            [chars |-> 950, hits |-> [NoHits EXCEPT !["research"] = 2],
             tool_signal |-> FALSE, topic_hits |-> 1, act_hits |-> 1, prod_hits |-> 0,
             lang |-> "de", lang_conf |-> 500]
      [] t = "T_page" ->
            [chars |-> 1250, hits |-> [NoHits EXCEPT !["release"] = 2],
             tool_signal |-> FALSE, topic_hits |-> 2, act_hits |-> 2, prod_hits |-> 0,
             lang |-> "en", lang_conf |-> 950]
      [] t = "T_mixed" ->
            [chars |-> 400, hits |-> [ct \in TypeSet |-> 1],
             tool_signal |-> FALSE, topic_hits |-> 1, act_hits |-> 0, prod_hits |-> 0,
             lang |-> "en", lang_conf |-> 900]
      [] t = "T_buzz" ->
            [chars |-> 1000,
             hits |-> [tool |-> 3, research |-> 2, release |-> 2, industry |-> 1, news |-> 3],
             tool_signal |-> FALSE, topic_hits |-> 3, act_hits |-> 4, prod_hits |-> 7,
             lang |-> "en", lang_conf |-> 900]
      [] t = "T_tooly" ->
            [chars |-> 400,
             hits |-> [tool |-> 2, research |-> 1, release |-> 1, industry |-> 1, news |-> 1],
             tool_signal |-> FALSE, topic_hits |-> 1, act_hits |-> 1, prod_hits |-> 0,
             lang |-> "en", lang_conf |-> 900]
      [] OTHER ->
            [chars |-> 0, hits |-> NoHits,
             tool_signal |-> FALSE, topic_hits |-> 0, act_hits |-> 0, prod_hits |-> 0,
             lang |-> "unknown", lang_conf |-> 0]

\* lang.detect_lang_with_confidence: <<lang, confidence>>; a detected language
\* outside the allow-list is reported as "other"
detect_lang_with_confidence(text, allowed_langs) ==
    LET info == TextInfo(text)
    IN  IF info.chars = 0 THEN <<"unknown", 0>>
        ELSE IF allowed_langs # {} /\ info.lang \notin allowed_langs /\ info.lang # "unknown"
        THEN <<"other", info.lang_conf>>
        ELSE <<info.lang, info.lang_conf>>

\* utils.safe_text of a title: markup stripped, whitespace collapsed and trimmed
safe_text(title) == IF title = " " THEN "" ELSE title

(***************************************************************************)
(* Candidate records as the collaborators' feeds carry them                *)
(***************************************************************************)
\* an RSS feed of an institution
RecLab ==
    [link |-> <<"github.com", "/", "a">>, title |-> "Title", text |-> "T_release",
     source |-> "Lab Blog ", source_type |-> "rss", author_org |-> "OpenAI  News",
     source_kind |-> "institutional", creator_name |-> "", source_weight |-> 1000,
     lane_hint |-> "reliable", content_type_hint |-> "release", published_at |-> 0,
     fetch_fulltext |-> TRUE, page |-> "T_long"]

\* the same page under a link with a fragment, with another text
RecLabAgain ==
    [RecLab EXCEPT !.link = <<"github.com", "/", "a", "#", "b">>, !.text = "T_agent",
                   !.page = ""]

\* a release of a watched repository
RecRelease ==
    [link |-> <<"github.com", "/", "/releases/", "b">>, title |-> "Title", text |-> "T_agent",
     source |-> "github_release", source_type |-> "api", author_org |-> "openai",
     source_kind |-> "institutional", creator_name |-> "", source_weight |-> 1000,
     lane_hint |-> "reliable", content_type_hint |-> "release", published_at |-> 0,
     fetch_fulltext |-> FALSE, page |-> ""]

\* a whitelisted creator's feed; the link has a blank before its slashes, and
\* the page is 300 characters longer than the feed's summary
RecAlice ==
    [link |-> <<"c", " ", "/", "/">>, title |-> "Title", text |-> "T_release",
     source |-> "alice feed", source_type |-> "rss", author_org |-> "Alice",
     source_kind |-> "creator", creator_name |-> "al", source_weight |-> 1000,
     lane_hint |-> "scout", content_type_hint |-> "release", published_at |-> NoDate,
     fetch_fulltext |-> TRUE, page |-> "T_page"]

\* a creator the whitelist does not name
RecStranger ==
    [RecAlice EXCEPT !.link = <<"d">>, !.source = "stranger feed",
                     !.author_org = "mallory", !.creator_name = "mallory"]

\* a creator feed that names no creator and no author
RecAnonymous ==
    [RecAlice EXCEPT !.link = <<"e">>, !.source = "anon feed",
                     !.author_org = "", !.creator_name = ""]

\* a creator feed that names no creator, whose source_kind is written
\* "Creator " in sources.yaml
RecGuest ==
    [RecAnonymous EXCEPT !.link = <<"i">>, !.source = "guest feed",
                         !.source_kind = "Creator "]

\* a discovered repository
RecDiscovery ==
    [link |-> <<"github.com", "/", "f", "/">>, title |-> "Title", text |-> "T_other",
     source |-> "github_discovery", source_type |-> "api", author_org |-> "github",
     source_kind |-> "institutional", creator_name |-> "", source_weight |-> 750,
     lane_hint |-> "scout", content_type_hint |-> "tool", published_at |-> 1,
     fetch_fulltext |-> FALSE, page |-> ""]

\* a feed entry without a title
RecUntitled ==
    [RecLab EXCEPT !.link = <<"g">>, !.title = " ", !.text = "T_short"]

\* an institutional feed without a content type hint, and an entry that
\* mentions a little of everything
RecPlain ==
    [link |-> <<"h">>, title |-> "Title", text |-> "T_mixed",
     source |-> "wire", source_type |-> "rss", author_org |-> "openai",
     source_kind |-> "institutional", creator_name |-> "", source_weight |-> 1000,
     lane_hint |-> "reliable", content_type_hint |-> "", published_at |-> 1,
     fetch_fulltext |-> FALSE, page |-> ""]

\* an entry of the same feed, written "WIRE " in sources.yaml and hinted for
\* the scout lane, that is mostly about a tool
RecTip ==
    [RecPlain EXCEPT !.link = <<"j">>, !.source = "WIRE ", !.lane_hint = "scout",
                     !.text = "T_tooly"]

\* an entry of an institutional feed full of product words, with as many
\* news keywords as tool keywords
RecBuzz ==
    [RecPlain EXCEPT !.link = <<"k">>, !.source = "buzz", !.text = "T_buzz"]

Catalog ==
    {RecLab, RecLabAgain, RecRelease, RecAlice, RecStranger, RecAnonymous,
     RecDiscovery, RecUntitled, RecPlain}

\* a second entry of the whitelisted creator's feed
RecAlicePost == [RecAlice EXCEPT !.link = <<"l">>]

\* the records of the feeds that try the gates and the per-source cap
GateCatalog ==
    {RecAlice, RecAlicePost, RecStranger, RecGuest, RecDiscovery, RecPlain, RecTip,
     RecBuzz}

(***************************************************************************)
(* The news_items table (db.py): a set of rows                             *)
(***************************************************************************)
\* the columns upsert_item writes, from the item it is given
Row(it) ==
    [id |-> it.id, source |-> it.source, source_type |-> it.source_type,
     author_org |-> it.author_org, source_kind |-> it.source_kind,
     source_weight |-> it.source_weight, creator_name |-> it.creator_name,
     url |-> it.url, title |-> it.title, published_at |-> it.published_at,
     fetched_at |-> it.fetched_at, lang |-> it.lang, content_text |-> it.text,
     content_type |-> it.content_type,
     content_type_confidence |-> it.content_type_confidence,
     lane |-> it.lane, breakout_signal |-> it.breakout_signal,
     novelty_score |-> it.novelty_score, relevance_score |-> it.relevance_score,
     actionability_score |-> it.actionability_score, recency_score |-> it.recency_score,
     source_trust_score |-> it.source_trust_score,
     source_mix_score |-> it.source_mix_score, quality_score |-> it.quality_score,
     priority_score |-> it.priority_score, status |-> it.status]

\* upsert_item as a plain INSERT into a table without the primary key
upsert_item_insert(db, it) == db \cup {Row(it)}

\* upsert_item as INSERT OR IGNORE: the row already under the url is kept
upsert_item_ignore(db, it) ==
    IF \E r \in db : r.url = it.url THEN db ELSE db \cup {Row(it)}

\* NewsDB.upsert_item: INSERT OR REPLACE on the primary key url
upsert_item(db, it) == {r \in db : r.url # it.url} \cup {Row(it)}

\* NewsDB.get_existing_urls: the urls are trimmed, the empty ones dropped, and
\* the rows whose url is one of them are selected
get_existing_urls(db, urls) ==
    LET clean == {Strip(u) : u \in urls} \ {<<>>}
    IN  {r.url : r \in {x \in db : x.url \in clean}}

\* NewsDB.update_status
update_status(db, url, status) ==
    {IF r.url = url THEN [r EXCEPT !.status = status] ELSE r : r \in db}

\* r comes strictly before x in ORDER BY published_at DESC NULLS LAST, fetched_at DESC
Precedes(r, x) ==
    \/ r.published_at # NoDate /\ x.published_at = NoDate
    \/ r.published_at # NoDate /\ x.published_at # NoDate /\ r.published_at > x.published_at
    \/ r.published_at = x.published_at /\ r.fetched_at > x.fetched_at

\* NewsDB.get_recent_texts(limit): the sets of rows the query may return; rows
\* that tie in the ordering come in whatever order the engine picks
get_recent_texts(db, limit) ==
    LET n == Min2(Max2(limit, 0), Cardinality(db))
    IN  {W \in SUBSET db :
            /\ Cardinality(W) = n
            /\ \A r \in W : \A x \in db \ W : ~Precedes(x, r)}

(***************************************************************************)
(* collect_items: every record as its adapter returns it.  The adapters    *)
(* canonicalize the link, give a fresh id and stamp the fetch time.        *)
(***************************************************************************)
Collected(rec, run, i, now) ==
    [id |-> <<run, i>>, url |-> canonicalize_url(rec.link), title |-> safe_text(rec.title),
     text |-> rec.text, source |-> rec.source, source_type |-> rec.source_type,
     author_org |-> rec.author_org, source_kind |-> rec.source_kind,
     creator_name |-> rec.creator_name, source_weight |-> rec.source_weight,
     lane_hint |-> rec.lane_hint, content_type_hint |-> rec.content_type_hint,
     published_at |-> rec.published_at, fetched_at |-> now,
     fetch_fulltext |-> rec.fetch_fulltext, page |-> rec.page,
     fate |-> "live", fetched |-> FALSE,
     lang |-> "", lang_confidence |-> 0,
     content_type |-> "news", content_type_confidence |-> 0,
     quality_score |-> 0, relevance_score |-> 0, actionability_score |-> 0,
     source_trust_score |-> 0, recency_score |-> 0, source_mix_score |-> 0,
     novelty_score |-> 0, breakout_signal |-> 0, priority_score |-> 0,
     lane |-> "reliable", status |-> "new"]

\* the collector a record comes from: an arXiv query, the GitHub releases,
\* the GitHub discovery, Hugging Face, or one RSS feed
CollectorOf(rec) == rec.source

Collectors(records) == {CollectorOf(records[i]) : i \in 1..Len(records)}

RECURSIVE CollectFrom(_, _, _, _)
\* the collectors in turn, each inside its own try: a collector of down
\* raises and adds nothing
CollectFrom(records, i, down, items) ==
    IF i > Len(records) THEN items
    ELSE IF CollectorOf(records[i]) \in down
    THEN CollectFrom(records, i + 1, down, items)
    ELSE CollectFrom(records, i + 1, down, Append(items, records[i]))

\* collect_items without the try blocks: a collector that raises ends the
\* collection, and nothing is returned
collect_items_unguarded(records, run, now, down) ==
    IF Collectors(records) \cap down # {} THEN <<>>
    ELSE [i \in 1..Len(records) |-> Collected(records[i], run, i, now)]

\* pipeline.collect_items: records is what the collectors yield when none
\* fails, down the collectors that raise
collect_items(records, run, now, down) ==
    TheOne({[i \in 1..Len(kept) |-> Collected(kept[i], run, i, now)]
            : kept \in {CollectFrom(records, 1, down, <<>>)}})

(***************************************************************************)
(* enrich_and_store, stage by stage.  The working lists of the code        *)
(* (cleaned, deduped, capped, prepped, enriched) are the items of the      *)
(* batch whose fate is still "live" after the stage; a dropped item keeps  *)
(* the name of the stage that dropped it.                                  *)
(***************************************************************************)
Live(items) == {i \in 1..Len(items) : items[i].fate = "live"}

CountFate(items, fates) == Cardinality({i \in 1..Len(items) : items[i].fate \in fates})

\* Normalize dropping only the records without a url
Normalize_url_only(items) ==
    [i \in 1..Len(items) |->
        LET it  == items[i]
            url == canonicalize_url(it.url)
        IN  [it EXCEPT !.url = url, !.title = safe_text(it.title),
                       !.lane_hint = IF it.lane_hint = "" THEN "reliable" ELSE it.lane_hint,
                       !.fate = IF url = <<>> THEN "malformed" ELSE "live"]]

\* 1) normalization: url and title cleaned, records without either dropped
Normalize(items) ==
    [i \in 1..Len(items) |->
        LET it  == items[i]
            url == canonicalize_url(it.url)
            ttl == safe_text(it.title)
        IN  [it EXCEPT !.url = url, !.title = ttl,
                       !.lane_hint = IF it.lane_hint = "" THEN "reliable" ELSE it.lane_hint,
                       !.fate = IF url = <<>> \/ ttl = "" THEN "malformed" ELSE "live"]]

\* 2) batch dedup against the persisted urls
Dedup(items, db) ==
    LET existing == get_existing_urls(db, {items[i].url : i \in Live(items)})
    IN  [i \in 1..Len(items) |->
            IF items[i].fate = "live" /\ items[i].url \in existing
            THEN [items[i] EXCEPT !.fate = "existing"] ELSE items[i]]

RECURSIVE CapFrom(_, _, _, _)
\* 3) the per-source cap: per_source counts the items kept so far
CapFrom(items, i, per_source, max_per_source) ==
    IF i > Len(items) THEN items
    ELSE IF items[i].fate # "live" THEN CapFrom(items, i + 1, per_source, max_per_source)
    ELSE LET src  == SourceKey(items[i].source)
             have == IF src \in DOMAIN per_source THEN per_source[src] ELSE 0
         IN  IF have >= max_per_source
             THEN CapFrom([items EXCEPT ![i].fate = "capped"], i + 1, per_source,
                          max_per_source)
             ELSE CapFrom(items, i + 1,
                          [k \in DOMAIN per_source \cup {src} |->
                              IF k = src THEN have + 1 ELSE per_source[k]],
                          max_per_source)

Cap(items, ranking) == CapFrom(items, 1, <<>>, ranking.max_items_per_source_per_run)

\* 4) language policy
LangFilter(items, lp) ==
    [i \in 1..Len(items) |->
        LET it   == items[i]
            d    == detect_lang_with_confidence(it.text, lp.allowed)
            lang == IF d[2] < lp.min_confidence /\ d[1] \notin {"unknown", "other"}
                    THEN "unknown" ELSE d[1]
        IN  IF it.fate # "live" THEN it
            ELSE IF lp.drop_disallowed /\ lang = "other" THEN [it EXCEPT !.fate = "language"]
            ELSE [it EXCEPT !.lang = lang, !.lang_confidence = d[2]]]

RECURSIVE FulltextFrom(_, _, _, _)
\* 5) full-text fetch: page is what fetch_article_text returns for the url
\* ("" when the fetch fails); fulltext_done counts the replacements
FulltextFrom(items, i, fulltext_done, fulltext_cap) ==
    IF i > Len(items) \/ fulltext_done >= fulltext_cap THEN items
    ELSE LET it == items[i]
         IN  IF it.fate # "live" \/ it.source_type # "rss" \/ ~it.fetch_fulltext
             THEN FulltextFrom(items, i + 1, fulltext_done, fulltext_cap)
             ELSE IF it.page # "" /\ TextInfo(it.page).chars > TextInfo(it.text).chars + 300
             THEN FulltextFrom([items EXCEPT ![i].text = it.page, ![i].fetched = TRUE],
                               i + 1, fulltext_done + 1, fulltext_cap)
             ELSE FulltextFrom([items EXCEPT ![i].fetched = TRUE],
                               i + 1, fulltext_done, fulltext_cap)

Fulltext(items, ranking) == FulltextFrom(items, 1, 0, ranking.fulltext_max_fetch_per_run)

\* the lane an item starts in: its hint
InitialLane(lane_hint) == IF lane_hint = "scout" THEN "scout" ELSE "reliable"

\* the trust an item must reach: its lane's minimum, raised to the creator
\* minimum for an item whose source_kind is "creator"
TrustMin(lane, source_kind, ranking) ==
    LET lane_min == IF lane = "scout" THEN ranking.min_trust_scout
                    ELSE ranking.min_trust_core
    IN  IF source_kind = "creator" THEN Max2(lane_min, ranking.min_creator_trust)
        ELSE lane_min

\* a type-confidence gate that drops every type on a low confidence
TypeGateDrops_any_type(lane, content_type, confidence, ranking) ==
    confidence < (IF lane = "scout" THEN ranking.min_type_confidence_scout
                  ELSE ranking.min_type_confidence_core)

\* the type-confidence gate: TRUE for an item it drops
TypeGateDrops(lane, content_type, confidence, ranking) ==
    LET type_conf_min == IF lane = "scout" THEN ranking.min_type_confidence_scout
                         ELSE ranking.min_type_confidence_core
    IN  confidence < type_conf_min /\ content_type = "news"

\* 6) classification, the scores that need no history, and the two gates
Enrich(items, cfg, now) ==
    [i \in 1..Len(items) |->
        LET it    == items[i]
            cls   == classify_item(TextInfo(it.text), it.source, it.source_type, it.url,
                                   it.content_type_hint)
            trust == compute_source_trust(it.author_org, cfg.trust, it.source_kind,
                                          it.creator_name)
            lane  == InitialLane(it.lane_hint)
            done  == [it EXCEPT
                        !.relevance_score = cls.relevance_score,
                        !.content_type = cls.content_type,
                        !.content_type_confidence = cls.content_type_confidence,
                        !.quality_score = cls.quality_score,
                        !.actionability_score =
                            compute_actionability(TextInfo(it.text).act_hits, it.url),
                        !.source_trust_score = trust,
                        !.recency_score = compute_recency_score(it.published_at, now)]
        IN  IF it.fate # "live" THEN it
            ELSE IF trust < TrustMin(lane, it.source_kind, cfg.ranking)
            THEN [done EXCEPT !.fate = "trust"]
            ELSE IF TypeGateDrops(lane, cls.content_type, cls.content_type_confidence,
                                  cfg.ranking)
            THEN [done EXCEPT !.fate = "typeconf"]
            ELSE done]

\* Counter(vals[i] for i in DOMAIN vals), as a function on the values that occur
CounterOf(vals) ==
    [k \in {vals[i] : i \in DOMAIN vals} |->
        Cardinality({i \in DOMAIN vals : vals[i] = k})]

\* 7) source mix over the surviving batch
Mix(items) ==
    LET source_counts == CounterOf([i \in Live(items) |-> SourceKey(items[i].source)])
    IN  [i \in 1..Len(items) |->
            IF items[i].fate # "live" THEN items[i]
            ELSE [items[i] EXCEPT !.source_mix_score =
                    compute_source_mix_score(source_counts, items[i].source,
                                             items[i].source_kind, items[i].source_weight,
                                             items[i].source_trust_score)]]

\* AssignLane deciding by the breakout alone, whatever the hint
AssignLane_by_breakout(lane_hint, breakout, breakout_promote_threshold) ==
    IF breakout >= breakout_promote_threshold THEN "scout" ELSE "reliable"

\* AssignLane promoting only above the threshold, not at it
AssignLane_strict(lane_hint, breakout, breakout_promote_threshold) ==
    IF breakout > breakout_promote_threshold THEN "scout" ELSE InitialLane(lane_hint)

\* the lane an item is persisted in: a breakout at or above the threshold
\* forces scout
AssignLane(lane_hint, breakout, breakout_promote_threshold) ==
    IF breakout >= breakout_promote_threshold THEN "scout" ELSE InitialLane(lane_hint)

\* FinalPriority without the cap on the boosted priority
FinalPriority_uncapped(base_priority, lane, trust, breakout, novelty) ==
    LET scout_boost == Mul(100, breakout) + Mul(60, novelty)
    IN  IF lane = "scout" /\ trust >= 800 THEN base_priority + scout_boost
        ELSE base_priority

\* the priority an item is persisted with: the scout boost is added only for
\* a scout item of trust >= 0.80, and capped at 1.0
FinalPriority(base_priority, lane, trust, breakout, novelty) ==
    LET scout_boost == Mul(100, breakout) + Mul(60, novelty)
    IN  IF lane = "scout" /\ trust >= 800 THEN Min2(One, base_priority + scout_boost)
        ELSE base_priority

\* the quality an item must reach to be persisted
QualityMin(lane, ranking) ==
    IF lane = "scout" THEN ranking.min_quality_scout ELSE ranking.min_quality_core

\* novelty, breakout, lane and priority of one item
Scored(it, recent, cfg) ==
    LET novelty  == novelty_score(it.text, recent)
        base     == combine_priority(
                        [source_trust  |-> it.source_trust_score,
                         novelty       |-> novelty,
                         relevance     |-> it.relevance_score,
                         actionability |-> it.actionability_score,
                         recency       |-> it.recency_score,
                         source_mix    |-> it.source_mix_score],
                        cfg.ranking.weights)
        breakout == compute_breakout_signal(TextInfo(it.text).prod_hits, it.source, novelty,
                                            it.recency_score, it.actionability_score)
        lane     == AssignLane(it.lane_hint, breakout,
                               cfg.ranking.breakout_promote_threshold)
    IN  [it EXCEPT !.novelty_score = novelty, !.lane = lane, !.breakout_signal = breakout,
                   !.priority_score = FinalPriority(base, lane, it.source_trust_score,
                                                    breakout, novelty)]

RECURSIVE PersistFrom_per_item(_, _, _, _, _)
\* the scoring loop with the history window rebuilt per item: the text of
\* each upserted item joins the window of the items scored after it
PersistFrom_per_item(items, i, db, recent, cfg) ==
    IF i > Len(items) THEN [items |-> items, db |-> db]
    ELSE IF items[i].fate # "live" THEN PersistFrom_per_item(items, i + 1, db, recent, cfg)
    ELSE TheOne({
            IF it.quality_score < QualityMin(it.lane, cfg.ranking)
            THEN PersistFrom_per_item([items EXCEPT ![i] = [it EXCEPT !.fate = "quality"]],
                                      i + 1, db, recent, cfg)
            ELSE PersistFrom_per_item([items EXCEPT ![i] = [it EXCEPT !.status = "new",
                                                                      !.fate = "stored"]],
                                      i + 1,
                                      upsert_item(db, [it EXCEPT !.status = "new",
                                                                 !.fate = "stored"]),
                                      (recent \cup {it.text}) \ {""}, cfg)
            : it \in {Scored(items[i], recent, cfg)}})

RECURSIVE PersistFrom(_, _, _, _, _)
\* 8) the scoring loop: each surviving item is scored against the history
\* window read before the loop, then dropped by the quality gate or upserted
PersistFrom(items, i, db, recent, cfg) ==
    IF i > Len(items) THEN [items |-> items, db |-> db]
    ELSE IF items[i].fate # "live" THEN PersistFrom(items, i + 1, db, recent, cfg)
    ELSE TheOne({
            IF it.quality_score < QualityMin(it.lane, cfg.ranking)
            THEN PersistFrom([items EXCEPT ![i] = [it EXCEPT !.fate = "quality"]],
                             i + 1, db, recent, cfg)
            ELSE PersistFrom([items EXCEPT ![i] = [it EXCEPT !.status = "new",
                                                             !.fate = "stored"]],
                             i + 1,
                             upsert_item(db, [it EXCEPT !.status = "new",
                                                        !.fate = "stored"]),
                             recent, cfg)
            : it \in {Scored(items[i], recent, cfg)}})

\* Stats with the two counters incremented before the quality gate: they
\* count every item the loop scored
Stats_counters_before_gate(fetched, new_items, items) ==
    LET stored == {i \in 1..Len(items) : items[i].fate = "stored"}
        scored == {i \in 1..Len(items) : items[i].fate \in {"quality", "stored"}}
    IN  [fetched             |-> fetched,
         new_items           |-> new_items,
         skipped_existing    |-> CountFate(items, {"existing"}),
         skipped_language    |-> CountFate(items, {"language"}),
         skipped_quality     |-> CountFate(items, {"quality"}),
         skipped_trust       |-> CountFate(items, {"trust"}),
         stored              |-> Cardinality(stored),
         lane_counts         |-> CounterOf([i \in scored |-> items[i].lane]),
         content_type_counts |-> CounterOf([i \in scored |-> items[i].content_type])]

\* the statistics record of a run
Stats(fetched, new_items, items) ==
    LET stored == {i \in 1..Len(items) : items[i].fate = "stored"}
    IN  [fetched             |-> fetched,
         new_items           |-> new_items,
         skipped_existing    |-> CountFate(items, {"existing"}),
         skipped_language    |-> CountFate(items, {"language"}),
         skipped_quality     |-> CountFate(items, {"quality"}),
         skipped_trust       |-> CountFate(items, {"trust"}),
         stored              |-> Cardinality(stored),
         lane_counts         |-> CounterOf([i \in stored |-> items[i].lane]),
         content_type_counts |-> CounterOf([i \in stored |-> items[i].content_type])]

\* the statistics record of a run that found nothing
NoStats == Stats(0, 0, <<>>)

\* the run from the scoring loop on: enriched is the batch after the gates
AfterEnrich(enriched, n_raw, n_capped, db, recent, cfg) ==
    IF Live(enriched) = {}
    THEN [db |-> db, items |-> enriched, stats |-> Stats(n_raw, n_capped, enriched)]
    ELSE TheOne({[db |-> final.db, items |-> final.items,
                  stats |-> Stats(n_raw, n_capped, final.items)]
                 : final \in {PersistFrom(enriched, 1, db, recent, cfg)}})

\* the run from classification on: prepped is the batch after the language
\* policy and the full-text fetch
AfterPrep(prepped, n_raw, n_capped, db, recent, cfg, now) ==
    IF Live(prepped) = {}
    THEN [db |-> db, items |-> prepped, stats |-> Stats(n_raw, n_capped, prepped)]
    ELSE TheOne({AfterEnrich(enriched, n_raw, n_capped, db, recent, cfg)
                 : enriched \in {AsList(Mix(AsList(Enrich(prepped, cfg, now))))}})

\* the run from the per-source cap on: deduped is the batch after the
\* existence check
AfterDedup(deduped, n_raw, db, recent, cfg, now) ==
    IF Live(deduped) = {}
    THEN [db |-> db, items |-> deduped, stats |-> Stats(n_raw, 0, deduped)]
    ELSE TheOne({
            TheOne({AfterPrep(prepped, n_raw, Cardinality(Live(capped)), db, recent, cfg, now)
                    : prepped \in {AsList(Fulltext(AsList(LangFilter(
                                      capped, cfg.language_policy)), cfg.ranking))}})
            : capped \in {AsList(Cap(deduped, cfg.ranking))}})

\* the run from the existence check on: cleaned is the normalized batch
AfterNormalize(cleaned, n_raw, db, recent, cfg, now) ==
    IF Live(cleaned) = {}
    THEN [db |-> db, items |-> cleaned, stats |-> Stats(0, 0, <<>>)]
    ELSE TheOne({AfterDedup(deduped, n_raw, db, recent, cfg, now)
                 : deduped \in {AsList(Dedup(cleaned, db))}})

\* the run on raw_items, the list collect_items returned.  window is the
\* result of get_recent_texts, read once before the scoring loop.
AfterCollect(raw_items, db, cfg, now, window) ==
    TheOne({AfterNormalize(cleaned, Len(raw_items), db,
                           {r.content_text : r \in window} \ {""}, cfg, now)
            : cleaned \in {AsList(Normalize(raw_items))}})

(***************************************************************************)
(* Faults a run can meet: a required configuration file is absent, some    *)
(* collectors raise, or the scoring loop raises at one of its items        *)
(***************************************************************************)
\* no fault; the configuration files missing; the collectors of down raising;
\* the scoring loop raising when it comes to item fail_at of the batch
NoFault == [kind |-> "none", down |-> {}, fail_at |-> 0]
ConfigFault == [kind |-> "config", down |-> {}, fail_at |-> 0]
CollectorFault(down) == [kind |-> "collectors", down |-> down, fail_at |-> 0]
LoopFault(k) == [kind |-> "loop", down |-> {}, fail_at |-> k]

\* the record of a run: the fault it met, whether it raised, the collectors
\* it called, and what the collectors had to yield
Went(fault, raised, called, offered) ==
    [fault |-> fault, raised |-> raised, called |-> called, offered |-> offered]

\* the items the scoring loop takes up: those that passed every earlier stage
InLoop(items) == {i \in 1..Len(items) : items[i].fate \in {"stored", "quality"}}

RECURSIVE UpsertedBefore(_, _, _, _)
\* the table after the scoring loop has handled the items before item k:
\* each upsert is its own statement, committed when it returns
UpsertedBefore(items, i, k, db) ==
    IF i >= k \/ i > Len(items) THEN db
    ELSE IF items[i].fate = "stored"
    THEN UpsertedBefore(items, i + 1, k, upsert_item(db, items[i]))
    ELSE UpsertedBefore(items, i + 1, k, db)

\* the items of a run whose scoring loop raised at item k: item k and those
\* after it were not handled
AbortedFrom(items, k) ==
    [i \in 1..Len(items) |->
        IF i >= k /\ i \in InLoop(items) THEN [items[i] EXCEPT !.fate = "aborted"]
        ELSE items[i]]

\* the run after load_config has returned: the collectors, then the stages.
\* A loop that raises at item fail_at leaves what the items before it did.
AfterConfig(records, db, cfg, run, now, window, fault) ==
    TheOne({
        IF fault.kind = "loop" /\ fault.fail_at \in InLoop(r.items)
        THEN [raised |-> TRUE, called |-> Collectors(records),
              db |-> UpsertedBefore(r.items, 1, fault.fail_at, db),
              items |-> AbortedFrom(r.items, fault.fail_at), stats |-> NoStats]
        ELSE [raised |-> FALSE, called |-> Collectors(records),
              db |-> r.db, items |-> r.items, stats |-> r.stats]
        : r \in {AfterCollect(AsList(collect_items(records, run, now, fault.down)),
                              db, cfg, now, window)}})

\* enrich_and_store with load_config after the stages: a missing file is
\* noticed when the run is over
enrich_and_store_late_config(records, db, cfg, run, now, window, fault) ==
    IF fault.kind = "config"
    THEN [AfterConfig(records, db, cfg, run, now, window, NoFault) EXCEPT !.raised = TRUE]
    ELSE AfterConfig(records, db, cfg, run, now, window, fault)

\* pipeline.enrich_and_store: load_config first, which raises when a required
\* file is absent; records is what the collectors yield when none fails
enrich_and_store(records, db, cfg, run, now, window, fault) ==
    IF fault.kind = "config"
    THEN [raised |-> TRUE, called |-> {}, db |-> db, items |-> <<>>, stats |-> NoStats]
    ELSE AfterConfig(records, db, cfg, run, now, window, fault)

(***************************************************************************)
(* Spec: the feeds publish records, the pipeline runs on what the feeds    *)
(* carry, and the curation surface sets statuses, from an empty table.     *)
(***************************************************************************)
\* the day of every run: datetime.now() in compute_recency_score and utc_now()
\* in the adapters
Today == 1

PipeInit ==
    /\ feed = <<>>
    /\ store = {}
    /\ config \in Configs
    /\ runs = 0
    /\ batch = <<>>
    /\ outcome = <<>>
    /\ stats = NoStats
    /\ storeBefore = {}
    /\ same = FALSE
    /\ touched = FALSE
    /\ prevStats = NoStats
    /\ last = Went(NoFault, FALSE, {}, <<>>)

UrlIdle ==
    /\ urlA = <<>> /\ urlB = <<>> /\ rel = "same"
    /\ outA = Unset /\ outB = Unset /\ outAA = Unset

Init == PipeInit /\ UrlIdle

\* a provider publishes a record of catalog
PublishFrom(catalog) ==
    /\ Len(feed) < MaxBatch
    /\ \E rec \in catalog :
          /\ \A i \in 1..Len(feed) : feed[i] # rec
          /\ feed' = Append(feed, rec)
    /\ UNCHANGED <<store, config, runs, batch, outcome, stats, storeBefore, same, touched,
                   prevStats, last, urlVars>>

\* a provider publishes a record
Publish == PublishFrom(Catalog)

\* one run of run_pipeline.py: enrich_and_store on what the collectors return
Run ==
    /\ runs < MaxRuns
    /\ \E window \in get_recent_texts(store, config.ranking.novelty_compare_last_n) :
          \E r \in {enrich_and_store(feed, store, config, runs + 1, Today, window, NoFault)} :
              /\ store' = r.db
              /\ outcome' = r.items
              /\ stats' = r.stats
    /\ batch' = feed
    /\ same' = (runs >= 1 /\ feed = batch /\ ~touched)
    /\ storeBefore' = store
    /\ prevStats' = stats
    /\ touched' = FALSE
    /\ runs' = runs + 1
    /\ last' = Went(NoFault, FALSE, Collectors(feed), feed)
    /\ UNCHANGED <<feed, config, urlVars>>

\* the curation surface marks a stored item as reviewed
UpdateStatus ==
    /\ \E r \in store :
          /\ r.status = "new"
          /\ store' = update_status(store, r.url, "reviewed")
    /\ touched' = TRUE
    /\ UNCHANGED <<feed, config, runs, batch, outcome, stats, storeBefore, same, prevStats,
                   last, urlVars>>

Next == Publish \/ Run \/ UpdateStatus

\* the faults a run on the feed can meet
Faults ==
    {ConfigFault}
        \cup {CollectorFault(down) : down \in SUBSET Collectors(feed) \ {{}}}
        \cup {LoopFault(k) : k \in 1..Len(feed)}

\* the first run, without a fault
FirstRun == runs = 0 /\ Run

\* a run that meets a fault; it is the first run or follows a run without one
FaultyRun ==
    /\ runs < MaxRuns
    /\ last.fault = NoFault
    /\ \E fault \in Faults :
        \E window \in get_recent_texts(store, config.ranking.novelty_compare_last_n) :
          \E r \in {enrich_and_store(feed, store, config, runs + 1, Today, window, fault)} :
              /\ store' = r.db
              /\ outcome' = r.items
              /\ batch' = IF fault.kind = "config" THEN <<>>
                          ELSE CollectFrom(feed, 1, fault.down, <<>>)
              /\ stats' = IF r.raised THEN stats ELSE r.stats
              /\ last' = Went(fault, r.raised, r.called, feed)
    /\ same' = FALSE
    /\ storeBefore' = store
    /\ prevStats' = stats
    /\ touched' = FALSE
    /\ runs' = runs + 1
    /\ UNCHANGED <<feed, config, urlVars>>

\* a provider of the feeds that try the gates publishes a record
PublishGate == PublishFrom(GateCatalog)

NextGates == PublishGate \/ Run

\* SpecGates: the pipeline runs on feeds that try the gates and the cap
SpecGates == Init /\ [][NextGates]_vars

NextFault == Publish \/ FirstRun \/ FaultyRun

\* SpecFault: runs of the pipeline of which one meets a fault
SpecFault == Init /\ [][NextFault]_vars

Spec == Init /\ [][Next]_vars

(***************************************************************************)
(* SpecUrl: canonicalize_url applied to every URL of at most MaxUrlLen     *)
(* tokens, and to a second URL that differs from it only in the fragment   *)
(* or only in the order of the query parameters.                           *)
(***************************************************************************)
RECURSIVE SeqsUpTo(_, _)
\* the sequences over S of length at most n
SeqsUpTo(S, n) ==
    IF n = 0 THEN {<<>>}
    ELSE LET shorter == SeqsUpTo(S, n - 1)
         IN  shorter \cup {Append(s, x) : s \in {t \in shorter : Len(t) = n - 1}, x \in S}

\* what precedes the first "#" of s
BeforeFragment(s) == SplitFirst(s, "#")[1]

\* the query of s as RFC 3986 delimits it: between the first "?" and the "#"
QueryOf(s) == SplitFirst(BeforeFragment(s), "?")[2]
BeforeQuery(s) == SplitFirst(BeforeFragment(s), "?")[1]
HasQuery(s) == \E i \in 1..Len(BeforeFragment(s)) : s[i] = "?"
FragmentPart(s) == SubSeq(s, Len(BeforeFragment(s)) + 1, Len(s))

RECURSIVE Join(_, _)
Join(pieces, sep) ==
    IF pieces = <<>> THEN <<>>
    ELSE IF Len(pieces) = 1 THEN Head(pieces)
    ELSE Head(pieces) \o <<sep>> \o Join(Tail(pieces), sep)

\* s with its query parameters in another order
Reorderings(s) ==
    IF ~HasQuery(s) THEN {s}
    ELSE LET ps == Split(QueryOf(s), "&")
             n  == Len(ps)
             perms == {f \in [1..n -> 1..n] : \A i, j \in 1..n : i # j => f[i] # f[j]}
         IN  {BeforeQuery(s) \o <<"?">> \o Join([i \in 1..n |-> ps[f[i]]], "&")
                \o FragmentPart(s) : f \in perms}

\* s with another fragment, or none
Refragmentings(s) ==
    {BeforeFragment(s) \o f : f \in {<<>>, <<"#">>, <<"#", "a">>, <<"#", "b", "/">>}}

UrlInit ==
    /\ PipeInit
    /\ config = CfgDefault
    /\ urlA \in SeqsUpTo(UrlAlphabet, MaxUrlLen) \cup {None}
    /\ urlB = urlA
    /\ rel = "same"
    /\ outA = Unset
    /\ outB = Unset
    /\ outAA = Unset

\* a second URL that differs only in its fragment
VaryFragment ==
    /\ rel = "same" /\ outA = Unset /\ urlA # None
    /\ \E v \in Refragmentings(urlA) :
          /\ v # urlA
          /\ urlB' = v
    /\ rel' = "fragment"
    /\ UNCHANGED <<urlA, outA, outB, outAA, pipeVars>>

\* a second URL that differs only in the order of its query parameters
ReorderQuery ==
    /\ rel = "same" /\ outA = Unset /\ urlA # None
    /\ \E v \in Reorderings(urlA) :
          /\ v # urlA
          /\ urlB' = v
    /\ rel' = "order"
    /\ UNCHANGED <<urlA, outA, outB, outAA, pipeVars>>

\* both URLs are canonicalized
Canonicalize ==
    /\ outA = Unset
    /\ outA' = canonicalize_url(urlA)
    /\ outB' = canonicalize_url(urlB)
    /\ UNCHANGED <<urlA, urlB, rel, outAA, pipeVars>>

\* the canonical URL is canonicalized again
Recanonicalize ==
    /\ outA \notin {Unset, Raised} /\ outAA = Unset
    /\ outAA' = canonicalize_url(outA)
    /\ UNCHANGED <<urlA, urlB, rel, outA, outB, pipeVars>>

UrlNext == VaryFragment \/ ReorderQuery \/ Canonicalize \/ Recanonicalize

SpecUrl == UrlInit /\ [][UrlNext]_vars

(***************************************************************************)
(* Properties of the pipeline, stated on the last run: batch is what the   *)
(* collectors returned, outcome the batch with each item's fate and        *)
(* scores, stats the run's statistics, storeBefore the table at its start. *)
(* touched is FALSE as long as only the pipeline wrote since.              *)
(***************************************************************************)
Stored == {i \in 1..Len(outcome) : outcome[i].fate = "stored"}

\* the rows of the table that hold url
RowsOf(url) == {r \in store : r.url = url}

\* the score fields of a persisted item
ScoreFields(x) ==
    <<x.quality_score, x.source_trust_score, x.recency_score, x.actionability_score,
      x.source_mix_score, x.novelty_score, x.relevance_score, x.content_type_confidence,
      x.breakout_signal, x.priority_score>>

InUnit(fields) == \A k \in 1..Len(fields) : fields[k] \in 0..One

\* C1: when a run follows a run on the identical batch with nothing else
\* writing in between, and the first run persisted the whole batch, then each
\* item of the batch is held once in the table, and the second run reports
\* stored = 0 and skipped_existing = the batch size.
C1_SecondRunSkipsAll ==
    (same /\ prevStats.stored = Len(batch)) =>
        /\ stats.stored = 0
        /\ stats.skipped_existing = Len(batch)
        /\ \A i \in 1..Len(outcome) : Cardinality(RowsOf(outcome[i].url)) = 1

\* C2: the table never holds two rows with the same url, whatever runs and
\* upserts have happened.
C2_OneRowPerUrl == \A r1, r2 \in store : r1.url = r2.url => r1 = r2

\* a run has upserted two items of one canonical url, and one row holds it
C2_Witness ==
    \E i, j \in Stored :
        /\ i # j
        /\ outcome[i].url = outcome[j].url
        /\ Cardinality(RowsOf(outcome[i].url)) = 1

\* C3: a run leaves every row that was stored before it as it was, field by
\* field, and drops each record of its batch whose canonical url such a row
\* holds at the existence check, before any enrichment.
C3_StoredRowsUntouched ==
    (runs >= 1 /\ ~touched) =>
        /\ storeBefore \subseteq store
        /\ \A i \in 1..Len(outcome) :
              (outcome[i].fate # "malformed"
                 /\ \E r \in storeBefore : r.url = outcome[i].url)
              => outcome[i].fate = "existing"

\* C4: every persisted item whose lane_hint is scout is persisted with lane
\* scout, whatever its breakout and the promotion threshold.
C4_ScoutHintStaysScout ==
    \A i \in Stored :
        outcome[i].lane_hint = "scout" =>
            /\ outcome[i].lane = "scout"
            /\ \A r \in store : r.id = outcome[i].id => r.lane = "scout"

\* a scout-hinted item was persisted with a breakout under the threshold
C4_Witness ==
    \E i \in Stored :
        /\ outcome[i].lane_hint = "scout"
        /\ outcome[i].breakout_signal < config.ranking.breakout_promote_threshold
        /\ \E r \in store : r.id = outcome[i].id /\ r.lane = "scout"

\* C5: every persisted item whose lane_hint is reliable and whose breakout
\* signal is at or above breakout_promote_threshold is persisted with lane scout.
C5_BreakoutPromotes ==
    \A i \in Stored :
        (outcome[i].lane_hint = "reliable"
           /\ outcome[i].breakout_signal >= config.ranking.breakout_promote_threshold)
        => /\ outcome[i].lane = "scout"
           /\ \A r \in store : r.id = outcome[i].id => r.lane = "scout"

\* a reliable-hinted item was persisted with a breakout equal to the threshold
C5_Witness ==
    \E i \in Stored :
        /\ outcome[i].lane_hint = "reliable"
        /\ outcome[i].breakout_signal = config.ranking.breakout_promote_threshold
        /\ \E r \in store : r.id = outcome[i].id /\ r.lane = "scout"

\* C6: every score field of every persisted item lies in [0, 1], the priority
\* after the scout boost and under configured weights included.
C6_ScoresInUnit ==
    /\ \A i \in Stored : InUnit(ScoreFields(outcome[i]))
    /\ \A r \in store : InUnit(ScoreFields(r))

\* a scout item of high trust was persisted under configured weights with its
\* boosted priority at the cap
C6_Witness ==
    \E i \in Stored :
        /\ config.ranking.weights # <<>>
        /\ outcome[i].lane = "scout"
        /\ outcome[i].source_trust_score >= 800
        /\ outcome[i].breakout_signal > 0
        /\ outcome[i].priority_score = One

\* C7: in a run that starts on an empty table, every item that is scored gets
\* novelty_score = 0.90.
C7_EmptyStoreNovelty ==
    (runs >= 1 /\ storeBefore = {}) =>
        \A i \in 1..Len(outcome) :
            outcome[i].fate \in {"stored", "quality"} => outcome[i].novelty_score = 900

\* a run on an empty table scored two items, the second after the first was
\* upserted
C7_Witness ==
    /\ runs >= 1 /\ storeBefore = {}
    /\ \E i, j \in Stored : i < j /\ outcome[j].novelty_score = 900

\* the identity the creator policy of compute_source_trust looks up
CreatorIdentity(it) ==
    AliasGet(config.trust.creator_alias,
             _norm(IF it.creator_name # "" THEN it.creator_name ELSE it.author_org))

\* C8: under strict_creator_whitelist, every item of source_kind creator whose
\* aliased identity the creator-trust table does not hold gets
\* creator_block_trust as its trust, fails the trust gate and is not persisted.
C8_UnlistedCreatorBlocked ==
    config.trust.strict_creator_whitelist =>
        \A i \in 1..Len(outcome) :
            (outcome[i].fate \in {"trust", "typeconf", "quality", "stored"}
               /\ LowerStrip(outcome[i].source_kind) = "creator"
               /\ CreatorIdentity(outcome[i]) \notin DOMAIN config.trust.creator_trust)
            => /\ outcome[i].source_trust_score = config.trust.creator_block_trust
               /\ outcome[i].fate = "trust"

(***************************************************************************)
(* Properties of canonicalize_url, under SpecUrl                           *)
(***************************************************************************)
\* C9: canonicalize_url is idempotent: canonicalizing a canonical URL gives it
\* back, for every URL, those that end in more than one slash included.
C9_Idempotent == outAA # Unset => outAA = outA

\* C10: two URLs that differ only in their fragment, or only in the order of
\* their query parameters, have the same canonicalize_url result.
C10_VariantsCollide == (outA # Unset /\ rel \in {"fragment", "order"}) => outA = outB

\* C11: canonicalize_url never raises, whatever value the url field carries,
\* None included; when the URL cannot be parsed the result is the trimmed
\* input.
C11_NeverRaises ==
    outA # Unset =>
        /\ outA # Raised
        /\ (urlA # None /\ ~urlparse(Strip(urlA)).ok) => outA = Strip(urlA)

\* the fields the stages after normalization write, as the collector left them
Unprocessed(x) ==
    /\ ~x.fetched
    /\ x.lang = "" /\ x.lang_confidence = 0
    /\ \A k \in 1..Len(ScoreFields(x)) : ScoreFields(x)[k] = 0

\* C12: a record whose canonical url or whose title is empty after
\* normalization stops there: it is not counted as existing, not fetched,
\* not classified or scored, and no row is written for it.
C12_MalformedStopsAtNormalize ==
    \A i \in 1..Len(outcome) :
        (outcome[i].url = <<>> \/ outcome[i].title = "") =>
            /\ outcome[i].fate = "malformed"
            /\ Unprocessed(outcome[i])
            /\ \A r \in store : r.id # outcome[i].id

\* a run dropped a record without a title at normalization and stored another
\* record of the same batch
C12_Witness ==
    /\ Stored # {}
    /\ \E i \in 1..Len(outcome) :
          /\ outcome[i].title = "" /\ outcome[i].url # <<>>
          /\ outcome[i].fate = "malformed"
          /\ RowsOf(outcome[i].url) = {}

\* the gates of gate policy: language, trust, type confidence, quality
GateFates == {"language", "trust", "typeconf", "quality"}

\* C15: every item a gate drops (language, trust, type confidence, quality)
\* adds one to a counter of the statistics record the run returns: the
\* skipped_language, skipped_trust and skipped_quality counters together
\* account for every one of them.
C15_GateRejectionsCounted ==
    runs >= 1 =>
        stats.skipped_language + stats.skipped_trust + stats.skipped_quality
            = CountFate(outcome, GateFates)

\* the items of the last run fetch_article_text was called for
FetchCalls == {i \in 1..Len(outcome) : outcome[i].fetched}

\* C17: in one run fetch_article_text is called at most
\* fulltext_max_fetch_per_run times, whatever the fetches return.
C17_FetchesWithinCap ==
    Cardinality(FetchCalls) <= config.ranking.fulltext_max_fetch_per_run

\* C18: a fetched text replaces the content_text the feed gave exactly when it
\* is at least 300 characters longer; one exactly 300 longer replaces it.
C18_ReplacedIffLongEnough ==
    \A i \in FetchCalls :
        Len(batch) = Len(outcome) =>
            (outcome[i].text # batch[i].text
                <=> /\ outcome[i].page # ""
                    /\ TextInfo(outcome[i].page).chars
                          >= TextInfo(batch[i].text).chars + 300)

\* item j of the last run is the last one the run upserted under its url
LastUnderUrl(j) ==
    /\ j \in Stored
    /\ \A k \in Stored : outcome[k].url = outcome[j].url => k <= j

\* C19: when two records of one canonical url are upserted one after the
\* other, one row holds the url afterwards and each of its fields has the
\* value the later upsert wrote.
C19_LastUpsertWins ==
    ~touched =>
        \A i, j \in Stored :
            (i < j /\ outcome[i].url = outcome[j].url /\ LastUnderUrl(j)) =>
                RowsOf(outcome[j].url) = {Row(outcome[j])}

\* a run upserted two records of one url that differ in their text and their
\* id, and the row is the second one's
C19_Witness ==
    /\ ~touched
    /\ \E i, j \in Stored :
          /\ i < j /\ outcome[i].url = outcome[j].url /\ LastUnderUrl(j)
          /\ outcome[i].text # outcome[j].text
          /\ outcome[i].id # outcome[j].id
          /\ \E r \in store : r.id = outcome[j].id /\ r.content_text = outcome[j].text
          /\ \A r \in store : r.id # outcome[i].id

\* the text t contains "checkpoint", a release keyword of the classifier and
\* an actionability keyword
ContainsCheckpoint(t) == TextInfo(t).hits["release"] >= 1 /\ TextInfo(t).act_hits >= 1

\* item i of the last run is the item of the release scenario: institutional,
\* hinted as a release on the reliable lane, its text containing "checkpoint"
\* and at most one product keyword, a github.com url, an organisation trusted
\* at 0.95, published one day ago, with the default configuration and an
\* empty table
ReleaseScenario(i) ==
    /\ config = CfgDefault /\ storeBefore = {}
    /\ outcome[i].source_kind = "institutional"
    /\ outcome[i].content_type_hint = "release"
    /\ outcome[i].lane_hint = "reliable"
    /\ ContainsCheckpoint(batch[i].text) /\ ContainsCheckpoint(outcome[i].text)
    /\ TextInfo(outcome[i].text).prod_hits <= 1
    /\ UrlHas(outcome[i].url, "github.com")
    /\ compute_source_trust(outcome[i].author_org, config.trust, outcome[i].source_kind,
                            outcome[i].creator_name) = 950
    /\ outcome[i].published_at = Today - 1

C13_NoPartialWrite == last.raised => store = storeBefore

\* the positions, in what the collectors had to yield, of the records whose
\* collector did not raise
Spared == {i \in 1..Len(last.offered) : CollectorOf(last.offered[i]) \notin last.fault.down}

\* those of them before position i
SparedBefore(i) == {j \in Spared : j < i}

\* C14: when some collectors raise, collect_items does not raise and returns
\* exactly the records of the others, in their order; a collector that
\* raised contributes none.
C14_CollectorsIsolated ==
    last.fault.kind = "collectors" =>
        /\ ~last.raised
        /\ Len(outcome) = Cardinality(Spared)
        /\ \A i \in Spared :
              LET it == outcome[Cardinality(SparedBefore(i)) + 1]
              IN  /\ it.source = last.offered[i].source
                  /\ it.url = canonicalize_url(canonicalize_url(last.offered[i].link))
                  /\ it.author_org = last.offered[i].author_org
                  /\ it.published_at = last.offered[i].published_at
        /\ \A k \in 1..Len(outcome) : CollectorOf(outcome[k]) \notin last.fault.down

\* a run in which one collector raised and another did not: the record of the
\* second went through the pipeline and was stored
C14_Witness ==
    /\ last.fault.kind = "collectors"
    /\ Spared # {} /\ Spared # 1..Len(last.offered)
    /\ 1 \notin Spared
    /\ \E k \in 1..Len(outcome) : outcome[k].fate = "stored"

\* C16: a run that finds a required configuration file absent raises before
\* it calls a collector, before it fetches a page and before it writes to
\* the table.
C16_ConfigFailureFirst ==
    last.fault.kind = "config" =>
        /\ last.raised
        /\ last.called = {}
        /\ FetchCalls = {}
        /\ store = storeBefore

\* a run found the configuration missing while the feeds carried a record
\* that is fetched and stored otherwise, and the table held a row
C16_Witness ==
    /\ last.fault.kind = "config" /\ last.raised
    /\ store # {}
    /\ \E i \in 1..Len(last.offered) :
          /\ last.offered[i].fetch_fulltext
          /\ \A r \in store :
                r.url # canonicalize_url(canonicalize_url(last.offered[i].link))

(***************************************************************************)
(* Properties of the gates and of the per-source cap                       *)
(***************************************************************************)
\* the items of the last run that passed the trust gate
PastTrustGate == {i \in 1..Len(outcome) : outcome[i].fate \in {"typeconf", "quality", "stored"}}

\* C21: an item passes the trust gate only with a trust of at least the
\* minimum of its lane, and an item of kind creator, however the kind is
\* cased or padded, only with at least min_creator_trust: no stored creator
\* item has less.
C21_TrustGate ==
    \A i \in PastTrustGate :
        /\ outcome[i].source_trust_score
              >= (IF InitialLane(outcome[i].lane_hint) = "scout"
                  THEN config.ranking.min_trust_scout
                  ELSE config.ranking.min_trust_core)
        /\ LowerStrip(outcome[i].source_kind) = "creator"
              => outcome[i].source_trust_score >= config.ranking.min_creator_trust

\* the items of the last run that came to the type-confidence gate
AtTypeGate == PastTrustGate

\* the least confidence the type-confidence gate asks of item i: that of the
\* lane the item is hinted for
TypeConfMin(i) ==
    IF InitialLane(outcome[i].lane_hint) = "scout"
    THEN config.ranking.min_type_confidence_scout
    ELSE config.ranking.min_type_confidence_core

\* C22: the type-confidence gate drops an item exactly when its confidence is
\* below the minimum of its lane and its type is news; an item of another
\* type passes it however low its confidence.
C22_TypeGateNewsOnly ==
    \A i \in AtTypeGate :
        outcome[i].fate = "typeconf"
            <=> /\ outcome[i].content_type_confidence < TypeConfMin(i)
                /\ outcome[i].content_type = "news"

\* a run in which the gate dropped a news item of low confidence and let
\* through an item of another type whose confidence was below the minimum too
C22_Witness ==
    /\ \E i \in AtTypeGate : outcome[i].fate = "typeconf"
    /\ \E i \in AtTypeGate :
          /\ outcome[i].fate # "typeconf"
          /\ outcome[i].content_type # "news"
          /\ outcome[i].content_type_confidence < TypeConfMin(i)

\* the language detection of the text item i had at the language stage is a
\* language outside the allow-list, detected with at least min_confidence
ConfidentlyOther(i) ==
    LET info == TextInfo(batch[i].text)
    IN  /\ info.chars > 0 /\ info.lang # "unknown"
        /\ info.lang \notin config.language_policy.allowed
        /\ info.lang_conf >= config.language_policy.min_confidence

\* C23: the language stage drops an item only when drop_disallowed is set and
\* its language is a detected language outside the allow-list; an item
\* without signal, with a detection below min_confidence or in an allowed
\* language is never dropped, and with drop_disallowed unset no item is
\* dropped and skipped_language is 0.
C23_OnlyOtherDropped ==
    (runs >= 1 /\ Len(batch) = Len(outcome)) =>
        /\ \A i \in 1..Len(outcome) :
              outcome[i].fate = "language"
                  => config.language_policy.drop_disallowed /\ ConfidentlyOther(i)
        /\ ~config.language_policy.drop_disallowed => stats.skipped_language = 0

\* item i of the last run is a well-formed record that no row of the table
\* held when the run began
NotPersisted(i) ==
    /\ outcome[i].fate # "malformed"
    /\ \A r \in storeBefore : r.url # outcome[i].url

\* item i passed the per-source cap
PassedCap(i) == outcome[i].fate \notin {"malformed", "existing", "capped"}

\* the records before item i, of its source, that were not persisted yet
EarlierOfSource(i) ==
    {j \in 1..(i - 1) :
        /\ NotPersisted(j)
        /\ SourceKey(outcome[j].source) = SourceKey(outcome[i].source)}

\* C24: of each source, its name lower-cased and trimmed, the records that
\* pass the per-source cap are the first max_items_per_source_per_run in batch
\* order among the records not persisted yet, so that no more than that many
\* items of a source are stored in a run.
C24_FirstOfEachSource ==
    runs >= 1 =>
        /\ \A i \in 1..Len(outcome) :
              PassedCap(i)
                  <=> /\ NotPersisted(i)
                      /\ Cardinality(EarlierOfSource(i))
                            < config.ranking.max_items_per_source_per_run
        /\ \A i \in Stored :
              Cardinality({j \in Stored : SourceKey(outcome[j].source)
                                             = SourceKey(outcome[i].source)})
                  <= config.ranking.max_items_per_source_per_run

(***************************************************************************)
(* Properties of the scoring loop and of the statistics                    *)
(***************************************************************************)
\* the items of the last run the scoring loop scored
ScoredItems == {i \in 1..Len(outcome) : outcome[i].fate \in {"quality", "stored"}}

\* the texts of a history window, the empty ones left out
WindowTexts(window) == {r.content_text : r \in window} \ {""}

\* the history windows get_recent_texts could return when the last run began
WindowsBefore == get_recent_texts(storeBefore, config.ranking.novelty_compare_last_n)

\* C25: the history window is read once, from the rows the table held before
\* the scoring loop: every item the run scored has the novelty of its text
\* against that one window, whatever was upserted before it in the same run
\* and wherever it stands in the batch.
C25_WindowReadOnce ==
    runs >= 1 =>
        \E window \in WindowsBefore :
            \A i \in ScoredItems :
                outcome[i].novelty_score
                    = novelty_score(outcome[i].text, WindowTexts(window))

\* a run stored two items, the later one nearer to the earlier one than to
\* any text of the window
C25_Witness ==
    /\ runs >= 1
    /\ \E i, j \in Stored :
          /\ i < j
          /\ \A window \in WindowsBefore :
                Cosine(outcome[i].text, outcome[j].text)
                    > MaxSim(outcome[j].text, WindowTexts(window))
          /\ \E window \in WindowsBefore :
                outcome[j].novelty_score
                    = novelty_score(outcome[j].text, WindowTexts(window))

\* C26: fetch_article_text is called only for items that came through
\* normalization, the existence check, the per-source cap and the language
\* policy, of source_type rss and with fetch_fulltext set; never for an item
\* the table already held when the run began.
C26_FetchOnlySurvivors ==
    runs >= 1 =>
        \A i \in FetchCalls :
            /\ outcome[i].fate \notin {"malformed", "existing", "capped", "language"}
            /\ outcome[i].source_type = "rss"
            /\ outcome[i].fetch_fulltext
            /\ NotPersisted(i)

\* C27: whichever way a run returns, its statistic fetched is the number of
\* raw records the collectors returned, also when every one of them is
\* malformed.
C27_FetchedCountsRaw ==
    runs >= 1 => stats.fetched = Len(batch)

\* the sum of the counts of a Counter
CounterTotal(counter) == SumOf(counter, DOMAIN counter)

\* C28: the statistics of a run agree with each other: lane_counts and
\* content_type_counts each add up to stored, and
\* stored + skipped_quality + skipped_trust + skipped_language <= new_items
\* <= fetched - skipped_existing.
C28_StatsConsistent ==
    /\ CounterTotal(stats.lane_counts) = stats.stored
    /\ CounterTotal(stats.content_type_counts) = stats.stored
    /\ stats.stored + stats.skipped_quality + stats.skipped_trust + stats.skipped_language
          <= stats.new_items
    /\ stats.new_items <= stats.fetched - stats.skipped_existing

\* a run stored an item and dropped another at the quality gate
C28_Witness ==
    /\ runs >= 1
    /\ stats.stored >= 1
    /\ stats.skipped_quality >= 1

\* the rows of the table under urls it did not hold when the last run began
RowsAdded == {r \in store : \A x \in storeBefore : x.url # r.url}

\* C29: a run upserts no canonical url twice, and so its statistic stored is
\* the number of rows it added to the table, also when two records of the
\* batch have one canonical url.
C29_StoredCountsRows ==
    (runs >= 1 /\ storeBefore = {}) =>
        /\ \A i, j \in Stored : outcome[i].url = outcome[j].url => i = j
        /\ stats.stored = Cardinality(RowsAdded)

\* the items of the last run persisted in lane scout
StoredScout == {i \in Stored : outcome[i].lane = "scout"}

====
